---- MODULE Spec2Model ----
(***************************************************************************)
(* Model of the Task CRUD API of djTedede: the two REST views of           *)
(* tasks/views.py (task_list, task_detail), the admin save_model of        *)
(* tasks/admin.py, the Task table they act on and the wall clock that      *)
(* stamps created_at / updated_at.                                         *)
(*                                                                         *)
(* tasks/models.py and tasks/serializers.py are not part of the available  *)
(* sources; the Task entity and the serializer are modelled from the       *)
(* specification (sections 3 and 4.1) and from what the tests under        *)
(* tasks/tests observe of them.                                            *)
(***************************************************************************)
EXTENDS Integers, Sequences, FiniteSets, TLC

VARIABLES
    store,    \* the Task table: a function from the ids of the stored rows to rows
    nextId,   \* the id the table's auto-increment sequence hands out next
    now,      \* the wall clock, as read by the timestamp fields
    nreq,     \* the number of writing requests (POST, PUT, DELETE, admin save) handled so far
    resp,     \* the request just handled and its response, until the client has it
    inflight  \* per concurrent client, the task_detail request it has in progress

vars == <<store, nextId, now, nreq, resp, inflight>>

---------------------------------------------------------------------------
(* Bounds of the model *)

\* how many writing requests (POST, PUT, DELETE, admin save) a behaviour holds;
\* reads are not counted
MaxRequests == 3
\* how far the clock advances
MaxTime == 1
\* how many clients have requests in progress at once
NumClients == 2

---------------------------------------------------------------------------
(* Program constants *)

\* Task.title max_length
TitleMaxLength == 200

HTTP_200_OK == 200
HTTP_201_CREATED == 201
HTTP_204_NO_CONTENT == 204
HTTP_400_BAD_REQUEST == 400
HTTP_404_NOT_FOUND == 404
\* what the framework answers when a view lets an exception escape
HTTP_500_INTERNAL_SERVER_ERROR == 500

---------------------------------------------------------------------------
(* Values *)

\* An optional value is a set of at most one element: {} is "absent".
Opt(S) == {{}} \cup {{x} : x \in S}
TheOne(S) == CHOOSE x \in S : TRUE

\* A title is a character repeated n times ('A' * 201 in the tests), kept as
\* the character and the count; the empty string is any character 0 times.
Rep(ch, n) == [ch |-> ch, n |-> n]
EmptyString == Rep("A", 0)
StrLen(s) == s.n

\* the titles a client sends: empty, short, exactly at the limit, one beyond it
ShortTitle == Rep("A", 1)
Titles == {EmptyString, ShortTitle, Rep("A", TitleMaxLength), Rep("A", TitleMaxLength + 1)}

\* a description value: null ({}) or a text, which may be the empty string
None == {}
EmptyDescription == {""}
DescriptionValues == {{"d"}}

\* A request body: each of the six keys of a Task's representation is absent
\* ({}) or present with a value.
Body(id, title, description, completed, created, updated) ==
    [id |-> id, title |-> title, description |-> description,
     completed |-> completed, created_at |-> created, updated_at |-> updated]

\* the ids a body may carry
BodyIds == 1..2

\* The bodies a client sends.  With the short title, description and completed
\* are given or omitted independently; with the other titles (and with no
\* title) they are both given or both omitted.  A body with the short title
\* alone may carry an id as well.
Bodies ==
    {Body({}, b.title, b.description, b.completed, {}, {}) :
        b \in {c \in [title : Opt(Titles),
                      description : Opt(DescriptionValues),
                      completed : Opt({TRUE})] :
                  \/ c.title = {ShortTitle}
                  \/ (c.description = {} <=> c.completed = {})}}
    \cup {Body({i}, {ShortTitle}, {}, {}, {}, {}) : i \in BodyIds}

NoBody == Body({}, {}, {}, {}, {}, {})

\* the ids a client may name: every id handed out so far and one never handed out
Pks == 1..nextId

---------------------------------------------------------------------------
(* The Task entity and its table *)

\* Task(**fields): description defaults to null, completed to False
Task(title, description, completed, created, updated) ==
    [title |-> title, description |-> description, completed |-> completed,
     created_at |-> created, updated_at |-> updated]

\* Task(**kwargs) with every default an empty string and True
Task_init_Blank(kwargs) ==
    [title |-> IF kwargs.title = {} THEN EmptyString ELSE TheOne(kwargs.title),
     description |-> IF kwargs.description = {} THEN EmptyDescription
                                                ELSE TheOne(kwargs.description),
     completed |-> IF kwargs.completed = {} THEN TRUE ELSE TheOne(kwargs.completed)]

\* Task(**kwargs), an object not saved yet: a field the call omits takes its
\* default, the empty string for title, null for description, False for completed
Task_init(kwargs) ==
    [title |-> IF kwargs.title = {} THEN EmptyString ELSE TheOne(kwargs.title),
     description |-> IF kwargs.description = {} THEN None ELSE TheOne(kwargs.description),
     completed |-> IF kwargs.completed = {} THEN FALSE ELSE TheOne(kwargs.completed)]

\* the storage layer refuses a title longer than the column
DataError(title) == StrLen(title) > TitleMaxLength

\* an INSERT that stamps created_at only and leaves updated_at at its zero
InsertStampingCreatedOnly(title, description, completed) ==
    /\ store' = [k \in DOMAIN store \cup {nextId} |->
                    IF k = nextId
                    THEN Task(title, description, completed, now, 0)
                    ELSE store[k]]
    /\ nextId' = nextId + 1

\* INSERT: a fresh id, created_at (auto_now_add) and updated_at (auto_now)
\* both stamped with the current time
Insert(title, description, completed) ==
    /\ store' = [k \in DOMAIN store \cup {nextId} |->
                    IF k = nextId
                    THEN Task(title, description, completed, now, now)
                    ELSE store[k]]
    /\ nextId' = nextId + 1

\* an UPDATE that stamps the current time on created_at and keeps updated_at
UpdateStampingCreated(pk, title, description, completed) ==
    /\ store' = [store EXCEPT ![pk] =
                    Task(title, description, completed, now, store[pk].updated_at)]
    /\ nextId' = nextId

\* UPDATE of row pk: the mutable fields replaced, updated_at (auto_now)
\* stamped with the current time, created_at kept
Update(pk, title, description, completed) ==
    /\ store' = [store EXCEPT ![pk] =
                    Task(title, description, completed, store[pk].created_at, now)]
    /\ nextId' = nextId

\* DELETE of row pk
Delete(pk) ==
    /\ store' = [k \in DOMAIN store \ {pk} |-> store[k]]
    /\ nextId' = nextId

\* Meta.ordering = ['-created_at']: a listing is any arrangement of the rows
\* with created_at descending; rows with equal created_at come in the order
\* the database chooses
IsOrdering(s) ==
    /\ \A i, j \in 1..Len(s) : i # j => s[i] # s[j]
    /\ \A i, j \in 1..Len(s) : i < j => store[s[i]].created_at >= store[s[j]].created_at

Orderings == {s \in [1..Cardinality(DOMAIN store) -> DOMAIN store] : IsOrdering(s)}

---------------------------------------------------------------------------
(* TaskSerializer *)

\* serializer.errors of a serializer that refuses a body carrying id,
\* created_at or updated_at
errors_RejectingReadOnly(data) ==
    (IF data.title = {} \/ data.title = {EmptyString} THEN {"title"} ELSE {})
    \cup (IF data.id # {} THEN {"id"} ELSE {})
    \cup (IF data.created_at # {} THEN {"created_at"} ELSE {})
    \cup (IF data.updated_at # {} THEN {"updated_at"} ELSE {})

\* serializer.errors: title is required and may not be blank
errors(data) == IF data.title = {} \/ data.title = {EmptyString} THEN {"title"} ELSE {}

is_valid(data) == errors(data) = {}

\* serializer.validated_data: description omitted is null, completed omitted is
\* False; id, created_at and updated_at are not fields a client sets, and what
\* the body gives for them is dropped
validated_data(data) ==
    [title |-> TheOne(data.title),
     description |-> IF data.description = {} THEN None ELSE TheOne(data.description),
     completed |-> IF data.completed = {} THEN FALSE ELSE TheOne(data.completed)]

\* serializer.data of a stored row: the six fields
to_representation(pk, t) ==
    [id |-> pk, title |-> t.title, description |-> t.description,
     completed |-> t.completed, created_at |-> t.created_at,
     updated_at |-> t.updated_at]

\* a Task's representation sent back as a request body: all six keys present,
\* a null description present as null
AsBody(r) ==
    Body({r.id}, {r.title}, {r.description}, {r.completed},
         {r.created_at}, {r.updated_at})

---------------------------------------------------------------------------
(* Responses *)

Response(op, pk, data, status, tasks, errs) ==
    [op |-> op, pk |-> pk, data |-> data, status |-> status,
     tasks |-> tasks, errors |-> errs]

NoResponse == Response("none", 0, NoBody, 0, <<>>, {})

\* the client sends its next request once it has the response to the last one
Idle == resp = NoResponse

\* the concurrent clients
Clients == 1..NumClients

\* a task_detail request in progress: the instance is what the lookup loaded
\* (a set of at most one row); status 0 is a request not answered yet
Request(op, pk, data, instance, status, tasks) ==
    [op |-> op, pk |-> pk, data |-> data, instance |-> instance,
     status |-> status, tasks |-> tasks]

NoRequest == Request("none", 0, NoBody, {}, 0, <<>>)

\* a writing request is handled and answered
Handle(r) == /\ Idle
             /\ nreq < MaxRequests
             /\ nreq' = nreq + 1
             /\ resp' = r
             /\ inflight' = inflight

\* a reading request is answered
Answer(r) == /\ Idle
             /\ nreq' = nreq
             /\ resp' = r
             /\ inflight' = inflight

---------------------------------------------------------------------------
(* The views *)

Init ==
    /\ store = <<>>
    /\ nextId = 1
    /\ now = 0
    /\ nreq = 0
    /\ resp = NoResponse
    /\ inflight = [c \in Clients |-> NoRequest]

\* the response reaches the client
Deliver ==
    /\ ~Idle
    /\ resp' = NoResponse
    /\ UNCHANGED <<store, nextId, now, nreq, inflight>>

\* time passes between (and never inside) requests
Tick ==
    /\ Idle
    /\ now < MaxTime
    /\ now' = now + 1
    /\ UNCHANGED <<store, nextId, nreq, resp, inflight>>

\* task_list with the rows taken in id order instead of the model's ordering
task_list_GET_ById ==
    /\ Idle
    /\ \E s \in [1..Cardinality(DOMAIN store) -> DOMAIN store] :
          /\ \A i, j \in 1..Len(s) : i < j => s[i] < s[j]
          /\ Answer(Response("list", 0, NoBody, HTTP_200_OK,
                             [i \in 1..Len(s) |-> to_representation(s[i], store[s[i]])], {}))
    /\ UNCHANGED <<store, nextId, now>>

\* GET /api/tasks/
task_list_GET ==
    /\ Idle
    /\ \E s \in Orderings :
          Answer(Response("list", 0, NoBody, HTTP_200_OK,
                          [i \in 1..Len(s) |-> to_representation(s[i], store[s[i]])], {}))
    /\ UNCHANGED <<store, nextId, now>>

\* task_list answering 201 for a valid body without serializer.save()
task_list_POST_NoSave(data) ==
    /\ Idle
    /\ UNCHANGED <<store, nextId, now>>
    /\ IF is_valid(data)
       THEN LET v == validated_data(data) IN
            Handle(Response("create", 0, data, HTTP_201_CREATED,
                            <<to_representation(nextId,
                                 Task(v.title, v.description, v.completed, now, now))>>, {}))
       ELSE Handle(Response("create", 0, data, HTTP_400_BAD_REQUEST, <<>>, errors(data)))

\* task_list saving a row before it looks at serializer.is_valid()
task_list_POST_SaveThenValidate(data) ==
    /\ Idle
    /\ UNCHANGED now
    /\ IF is_valid(data)
       THEN LET v == validated_data(data) IN
            /\ ~DataError(v.title)
            /\ Insert(v.title, v.description, v.completed)
            /\ Handle(Response("create", 0, data, HTTP_201_CREATED,
                               <<to_representation(nextId, store'[nextId])>>, {}))
       ELSE /\ Insert(EmptyString, None, FALSE)
            /\ Handle(Response("create", 0, data, HTTP_400_BAD_REQUEST, <<>>, errors(data)))

\* POST /api/tasks/
task_list_POST(data) ==
    /\ Idle
    /\ UNCHANGED now
    /\ IF is_valid(data)
       THEN LET v == validated_data(data) IN
            IF DataError(v.title)
            THEN \* save() raises and nothing catches it
                 /\ Handle(Response("create", 0, data, HTTP_500_INTERNAL_SERVER_ERROR, <<>>, {}))
                 /\ UNCHANGED <<store, nextId>>
            ELSE /\ Insert(v.title, v.description, v.completed)
                 /\ Handle(Response("create", 0, data, HTTP_201_CREATED,
                                    <<to_representation(nextId, store'[nextId])>>, {}))
       ELSE /\ Handle(Response("create", 0, data, HTTP_400_BAD_REQUEST, <<>>, errors(data)))
            /\ UNCHANGED <<store, nextId>>

\* the lookup that opens task_detail: Task.objects.get(pk=pk), or 404
task_detail_found(pk) == pk \in DOMAIN store

task_detail_404(op, pk, data) ==
    /\ IF op = "retrieve"
       THEN Answer(Response(op, pk, data, HTTP_404_NOT_FOUND, <<>>, {}))
       ELSE Handle(Response(op, pk, data, HTTP_404_NOT_FOUND, <<>>, {}))
    /\ UNCHANGED <<store, nextId, now>>

\* GET /api/tasks/<pk>/
task_detail_GET(pk) ==
    /\ Idle
    /\ IF ~task_detail_found(pk)
       THEN task_detail_404("retrieve", pk, NoBody)
       ELSE /\ Answer(Response("retrieve", pk, NoBody, HTTP_200_OK,
                               <<to_representation(pk, store[pk])>>, {}))
            /\ UNCHANGED <<store, nextId, now>>

\* the part of task_detail's PUT that follows a successful lookup
task_detail_PUT_found(pk, data) ==
    /\ UNCHANGED now
    /\ IF is_valid(data)
       THEN LET v == validated_data(data) IN
            IF DataError(v.title)
            THEN \* save() raises and nothing catches it
                 /\ Handle(Response("update", pk, data,
                                    HTTP_500_INTERNAL_SERVER_ERROR, <<>>, {}))
                 /\ UNCHANGED <<store, nextId>>
            ELSE /\ Update(pk, v.title, v.description, v.completed)
                 /\ Handle(Response("update", pk, data, HTTP_200_OK,
                                    <<to_representation(pk, store'[pk])>>, {}))
       ELSE /\ Handle(Response("update", pk, data, HTTP_400_BAD_REQUEST,
                               <<>>, errors(data)))
            /\ UNCHANGED <<store, nextId>>

\* task_detail's PUT with a serializer that sets the id the body carries on
\* the instance before save(): the row of that id is written, or inserted
task_detail_PUT_WritableId(pk, data) ==
    /\ Idle
    /\ IF ~task_detail_found(pk)
       THEN task_detail_404("update", pk, data)
       ELSE IF is_valid(data) /\ ~DataError(TheOne(data.title)) /\ data.id # {}
            THEN LET v == validated_data(data)
                     id == TheOne(data.id) IN
                 /\ UNCHANGED now
                 /\ store' = [k \in DOMAIN store \cup {id} |->
                                 IF k = id
                                 THEN Task(v.title, v.description, v.completed,
                                           store[pk].created_at, now)
                                 ELSE store[k]]
                 /\ nextId' = IF id >= nextId THEN id + 1 ELSE nextId
                 /\ Handle(Response("update", pk, data, HTTP_200_OK,
                                    <<to_representation(id, store'[id])>>, {}))
            ELSE task_detail_PUT_found(pk, data)

\* task_detail's PUT validating the body before it looks the Task up
task_detail_PUT_ValidateFirst(pk, data) ==
    /\ Idle
    /\ IF ~is_valid(data)
       THEN /\ Handle(Response("update", pk, data, HTTP_400_BAD_REQUEST, <<>>, errors(data)))
            /\ UNCHANGED <<store, nextId, now>>
       ELSE IF ~task_detail_found(pk)
            THEN task_detail_404("update", pk, data)
            ELSE task_detail_PUT_found(pk, data)

\* task_detail's PUT as a partial update: a field the body omits keeps its value
task_detail_PUT_Partial(pk, data) ==
    /\ Idle
    /\ IF ~task_detail_found(pk)
       THEN task_detail_404("update", pk, data)
       ELSE IF is_valid(data) /\ ~DataError(TheOne(data.title))
            THEN /\ UNCHANGED now
                 /\ Update(pk, TheOne(data.title),
                           IF data.description = {} THEN store[pk].description
                                                    ELSE TheOne(data.description),
                           IF data.completed = {} THEN store[pk].completed
                                                  ELSE TheOne(data.completed))
                 /\ Handle(Response("update", pk, data, HTTP_200_OK,
                                    <<to_representation(pk, store'[pk])>>, {}))
            ELSE task_detail_PUT_found(pk, data)

\* task_detail's PUT writing the row with a queryset update(), which stamps
\* no updated_at
task_detail_PUT_NoStamp(pk, data) ==
    /\ Idle
    /\ IF ~task_detail_found(pk)
       THEN task_detail_404("update", pk, data)
       ELSE IF is_valid(data) /\ ~DataError(TheOne(data.title))
            THEN LET v == validated_data(data) IN
                 /\ UNCHANGED <<now, nextId>>
                 /\ store' = [store EXCEPT ![pk] =
                                 Task(v.title, v.description, v.completed,
                                      store[pk].created_at, store[pk].updated_at)]
                 /\ Handle(Response("update", pk, data, HTTP_200_OK,
                                    <<to_representation(pk, store'[pk])>>, {}))
            ELSE task_detail_PUT_found(pk, data)

\* task_detail's PUT setting the fields the body gives on the row before it
\* finds the body invalid
task_detail_PUT_WriteThenValidate(pk, data) ==
    /\ Idle
    /\ IF ~task_detail_found(pk)
       THEN task_detail_404("update", pk, data)
       ELSE IF ~is_valid(data)
            THEN /\ UNCHANGED now
                 /\ Update(pk, store[pk].title,
                           IF data.description = {} THEN store[pk].description
                                                    ELSE TheOne(data.description),
                           IF data.completed = {} THEN store[pk].completed
                                                  ELSE TheOne(data.completed))
                 /\ Handle(Response("update", pk, data, HTTP_400_BAD_REQUEST,
                                    <<>>, errors(data)))
            ELSE task_detail_PUT_found(pk, data)

\* PUT /api/tasks/<pk>/
task_detail_PUT(pk, data) ==
    /\ Idle
    /\ IF ~task_detail_found(pk)
       THEN task_detail_404("update", pk, data)
       ELSE task_detail_PUT_found(pk, data)

\* task_detail's DELETE answering 204 without task.delete()
task_detail_DELETE_NoDelete(pk) ==
    /\ Idle
    /\ IF ~task_detail_found(pk)
       THEN task_detail_404("destroy", pk, NoBody)
       ELSE /\ Handle(Response("destroy", pk, NoBody, HTTP_204_NO_CONTENT, <<>>, {}))
            /\ UNCHANGED <<store, nextId, now>>

\* DELETE /api/tasks/<pk>/
task_detail_DELETE(pk) ==
    /\ Idle
    /\ IF ~task_detail_found(pk)
       THEN task_detail_404("destroy", pk, NoBody)
       ELSE /\ Delete(pk)
            /\ Handle(Response("destroy", pk, NoBody, HTTP_204_NO_CONTENT, <<>>, {}))
            /\ UNCHANGED now

\* The calls that build the Task objects handed to save_model:
\* Task(title='New Task', description='New Description'), Task() and a Task
\* with a title too long.
AdminKwargs ==
    {[title |-> {ShortTitle}, description |-> {{"d"}}, completed |-> {}],
     [title |-> {}, description |-> {}, completed |-> {}],
     [title |-> {Rep("A", TitleMaxLength + 1)}, description |-> {}, completed |-> {}]}

\* The objects handed to save_model, each with the call that built it.
\* save() validates nothing, so each of them goes to the storage layer.
AdminObjects == {[kwargs |-> kw, fields |-> Task_init(kw)] : kw \in AdminKwargs}

\* TaskAdmin.save_model(request, obj, form, change): obj.save().  pk = 0 is an
\* object not saved before (an INSERT); otherwise obj was loaded from row pk
\* and had its fields set (an UPDATE).  A refused write raises out of save().
save_model(pk, obj) ==
    /\ Idle
    /\ pk = 0 \/ pk \in DOMAIN store
    /\ UNCHANGED now
    /\ LET f == obj.fields IN
       IF DataError(f.title)
       THEN /\ Handle(Response("save_model", pk, obj.kwargs, 0, <<>>, {"DataError"}))
            /\ UNCHANGED <<store, nextId>>
       ELSE IF pk = 0
            THEN /\ Insert(f.title, f.description, f.completed)
                 /\ Handle(Response("save_model", nextId, obj.kwargs, 0,
                                    <<to_representation(nextId, store'[nextId])>>, {}))
            ELSE /\ Update(pk, f.title, f.description, f.completed)
                 /\ Handle(Response("save_model", pk, obj.kwargs, 0,
                                    <<to_representation(pk, store'[pk])>>, {}))

Next ==
    \/ Deliver
    \/ Tick
    \/ task_list_GET
    \/ \E data \in Bodies : task_list_POST(data)
    \/ \E pk \in Pks : task_detail_GET(pk)
    \/ \E pk \in Pks, data \in Bodies : task_detail_PUT(pk, data)
    \/ \E pk \in DOMAIN store :
          task_detail_PUT(pk, AsBody(to_representation(pk, store[pk])))
    \/ \E pk \in Pks : task_detail_DELETE(pk)
    \/ \E pk \in {0} \cup DOMAIN store, obj \in AdminObjects : save_model(pk, obj)

Spec == Init /\ [][Next]_vars

---------------------------------------------------------------------------
(* task_detail under concurrent requests *)

\* task_detail runs as two statements against the table: the lookup, then the
\* save or delete of the instance the lookup loaded.  Requests of other
\* clients run between the two.

\* client c has no request in progress
Free(c) == inflight[c].op = "none" \/ inflight[c].status # 0

\* Model.save() of an instance loaded from row pk: an UPDATE of that row with
\* the instance's fields, created_at included; when the UPDATE matches no row,
\* an INSERT under the instance's pk, stamped as a new row
save(pk, instance, title, description, completed) ==
    /\ store' = IF pk \in DOMAIN store
                THEN [store EXCEPT ![pk] =
                         Task(title, description, completed, instance.created_at, now)]
                ELSE [k \in DOMAIN store \cup {pk} |->
                         IF k = pk
                         THEN Task(title, description, completed, now, now)
                         ELSE store[k]]
    /\ nextId' = nextId

\* the lookup that opens task_detail, for client c: the row is loaded, or the
\* request ends with 404
task_detail_lookup(c, op, pk, data) ==
    /\ Idle
    /\ Free(c)
    /\ nreq < MaxRequests
    /\ nreq' = nreq + 1
    /\ inflight' = [inflight EXCEPT ![c] =
                       IF task_detail_found(pk)
                       THEN Request(op, pk, data, {store[pk]}, 0, <<>>)
                       ELSE Request(op, pk, data, {}, HTTP_404_NOT_FOUND, <<>>)]
    /\ UNCHANGED <<store, nextId, now, resp>>

\* GET: the loaded instance is serialized
task_detail_GET_respond(c) ==
    /\ inflight[c].op = "retrieve" /\ inflight[c].status = 0
    /\ LET r == inflight[c] IN
       inflight' = [inflight EXCEPT ![c] =
                       Request(r.op, r.pk, r.data, r.instance, HTTP_200_OK,
                               <<to_representation(r.pk, TheOne(r.instance))>>)]
    /\ UNCHANGED <<store, nextId, now, nreq, resp>>

\* PUT: the body is validated and the loaded instance saved
task_detail_PUT_save(c) ==
    /\ inflight[c].op = "update" /\ inflight[c].status = 0
    /\ UNCHANGED <<now, nreq, resp>>
    /\ LET r == inflight[c] IN
       IF is_valid(r.data)
       THEN LET v == validated_data(r.data) IN
            IF DataError(v.title)
            THEN /\ inflight' = [inflight EXCEPT ![c].status =
                                    HTTP_500_INTERNAL_SERVER_ERROR]
                 /\ UNCHANGED <<store, nextId>>
            ELSE /\ save(r.pk, TheOne(r.instance), v.title, v.description, v.completed)
                 /\ inflight' = [inflight EXCEPT ![c] =
                                    Request(r.op, r.pk, r.data, r.instance, HTTP_200_OK,
                                            <<to_representation(r.pk, store'[r.pk])>>)]
       ELSE /\ inflight' = [inflight EXCEPT ![c].status = HTTP_400_BAD_REQUEST]
            /\ UNCHANGED <<store, nextId>>

\* DELETE: the loaded instance is deleted; deleting a row already gone is no error
task_detail_DELETE_delete(c) ==
    /\ inflight[c].op = "destroy" /\ inflight[c].status = 0
    /\ Delete(inflight[c].pk)
    /\ inflight' = [inflight EXCEPT ![c].status = HTTP_204_NO_CONTENT]
    /\ UNCHANGED <<now, nreq, resp>>

NextConc ==
    \/ Deliver
    \/ Tick
    \/ \E data \in Bodies : task_list_POST(data)
    \/ \E c \in Clients, pk \in Pks : task_detail_lookup(c, "retrieve", pk, NoBody)
    \/ \E c \in Clients, pk \in Pks, data \in Bodies : task_detail_lookup(c, "update", pk, data)
    \/ \E c \in Clients, pk \in Pks : task_detail_lookup(c, "destroy", pk, NoBody)
    \/ \E c \in Clients : task_detail_GET_respond(c)
    \/ \E c \in Clients : task_detail_PUT_save(c)
    \/ \E c \in Clients : task_detail_DELETE_delete(c)

SpecConc == Init /\ [][NextConc]_vars

---------------------------------------------------------------------------
(* Vocabulary of the claims *)

\* this step handles a request of kind op
Handles(op) == resp = NoResponse /\ resp'.op = op

\* the rows stored before the step are stored after it, unchanged
OthersKept == \A k \in DOMAIN store : k \in DOMAIN store' /\ store'[k] = store[k]

\* the table is what it was
StoreSame == store' = store /\ nextId' = nextId

\* a body with a non-empty title of at most 200 characters
ValidBody(d) == d.title # {} /\ StrLen(TheOne(d.title)) >= 1
                            /\ StrLen(TheOne(d.title)) <= TitleMaxLength

\* a body whose title is missing or the empty string
NoTitle(d) == d.title = {} \/ d.title = {EmptyString}

\* a body whose title is longer than 200 characters
LongTitle(d) == d.title # {} /\ StrLen(TheOne(d.title)) > TitleMaxLength

---------------------------------------------------------------------------
(* C1 *)

\* C1: a POST on the collection with a valid body (non-empty title of at most
\* 200 characters) answers 201 and adds exactly one Task: one more row, under
\* an id no stored row had, returned in the response, every other row unchanged.
C1_CreateAddsOne ==
    [][ (Handles("create") /\ ValidBody(resp'.data)) =>
            /\ resp'.status = HTTP_201_CREATED
            /\ Cardinality(DOMAIN store') = Cardinality(DOMAIN store) + 1
            /\ OthersKept
            /\ \E k \in DOMAIN store' \ DOMAIN store :
                  resp'.tasks = <<to_representation(k, store'[k])>> ]_vars

\* a Task with a title of exactly 200 characters was created beside a stored one
C1_Witness ==
    /\ resp.op = "create" /\ resp.status = HTTP_201_CREATED
    /\ resp.data.title = {Rep("A", TitleMaxLength)}
    /\ Cardinality(DOMAIN store) >= 2

(* C2 *)

\* C2: a POST on the collection whose title is missing or empty answers 400
\* with an error keyed on title, and the table is exactly what it was.
C2_CreateWithoutTitleRejected ==
    [][ (Handles("create") /\ NoTitle(resp'.data)) =>
            /\ resp'.status = HTTP_400_BAD_REQUEST
            /\ "title" \in resp'.errors
            /\ StoreSame ]_vars

\* a POST with an empty title and a description was refused while a row is stored
C2_Witness ==
    /\ resp.op = "create" /\ resp.status = HTTP_400_BAD_REQUEST
    /\ resp.data.title = {EmptyString} /\ resp.data.description # {}
    /\ DOMAIN store # {}

(* C3 *)

\* C3: a POST, or a PUT on a stored Task, with a title longer than 200
\* characters answers 400 and leaves the table unchanged.
C3_LongTitleIs400 ==
    [][ ( /\ Handles("create") \/ (Handles("update") /\ resp'.pk \in DOMAIN store)
          /\ LongTitle(resp'.data) ) =>
            /\ resp'.status = HTTP_400_BAD_REQUEST
            /\ StoreSame ]_vars

(* C4 *)

\* C4: GET, PUT and DELETE on an id that is not the id of a stored Task answer
\* 404 whatever the body is, and the table is unchanged.
C4_UnknownIdIs404 ==
    [][ ( /\ Handles("retrieve") \/ Handles("update") \/ Handles("destroy")
          /\ resp'.pk \notin DOMAIN store ) =>
            /\ resp'.status = HTTP_404_NOT_FOUND
            /\ StoreSame ]_vars

\* a PUT without a title on an unknown id got 404 while a row is stored
C4_Witness ==
    /\ resp.op = "update" /\ resp.status = HTTP_404_NOT_FOUND
    /\ resp.data.title = {}
    /\ DOMAIN store # {}

(* C5 *)

\* C5: DELETE on the id of a stored Task answers 204 and removes exactly that
\* row; an id that was handed out and is no longer stored never comes back,
\* a GET on an id that is not stored answers 404, and a listing holds stored
\* rows only.
C5_DeleteRemovesForGood ==
    [][ /\ (Handles("destroy") /\ resp'.pk \in DOMAIN store) =>
              /\ resp'.status = HTTP_204_NO_CONTENT
              /\ DOMAIN store' = DOMAIN store \ {resp'.pk}
              /\ \A k \in DOMAIN store' : store'[k] = store[k]
        /\ \A k \in 1..(nextId - 1) : k \notin DOMAIN store => k \notin DOMAIN store'
        /\ (Handles("retrieve") /\ resp'.pk \notin DOMAIN store) =>
              resp'.status = HTTP_404_NOT_FOUND
        /\ Handles("list") =>
              \A i \in 1..Len(resp'.tasks) : resp'.tasks[i].id \in DOMAIN store ]_vars

\* a GET on the id of a deleted Task got 404 while another row is stored
C5_Witness ==
    /\ resp.op = "retrieve" /\ resp.status = HTTP_404_NOT_FOUND
    /\ resp.pk < nextId
    /\ DOMAIN store # {}

(* C6 *)

\* what a body alone determines: its title, its description or null, its
\* completed or False
FromBody(d) ==
    [title |-> TheOne(d.title),
     description |-> IF d.description = {} THEN {} ELSE TheOne(d.description),
     completed |-> IF d.completed = {} THEN FALSE ELSE TheOne(d.completed)]

Updates == \/ Handles("update") /\ resp'.status = HTTP_200_OK
           \/ Handles("save_model") /\ resp'.pk \in DOMAIN store /\ resp'.errors = {}

\* C7 as stated: every successful update leaves updated_at strictly greater
\* than it was and created_at unchanged.
C7_UpdatedAtStrictlyGrows ==
    [][ Updates =>
            /\ store'[resp'.pk].updated_at > store[resp'.pk].updated_at
            /\ store'[resp'.pk].created_at = store[resp'.pk].created_at ]_vars

\* C7 amended: every successful update sets updated_at to the clock's reading,
\* which is never less than the old value and strictly greater when the clock
\* has advanced since the old value was stamped; created_at is unchanged.
C7_UpdatedAtNeverDecreases ==
    [][ Updates =>
            /\ store'[resp'.pk].updated_at = now
            /\ store'[resp'.pk].updated_at >= store[resp'.pk].updated_at
            /\ now > store[resp'.pk].updated_at =>
                  store'[resp'.pk].updated_at > store[resp'.pk].updated_at
            /\ store'[resp'.pk].created_at = store[resp'.pk].created_at ]_vars

\* an update, after the clock advanced, of a Task created before
C7_Witness ==
    /\ resp.op \in {"update", "save_model"} /\ resp.status \in {0, HTTP_200_OK}
    /\ resp.errors = {}
    /\ resp.pk \in DOMAIN store
    /\ store[resp.pk].updated_at > store[resp.pk].created_at

(* C8 *)

\* C8: a PUT on the id of a stored Task whose title is missing or empty
\* answers 400, and every row, that one included, is exactly as before.
C8_InvalidPutChangesNothing ==
    [][ (Handles("update") /\ resp'.pk \in DOMAIN store /\ NoTitle(resp'.data)) =>
            /\ resp'.status = HTTP_400_BAD_REQUEST
            /\ StoreSame ]_vars

\* a PUT without a title but with description and completed was refused for a
\* stored Task
C8_Witness ==
    /\ resp.op = "update" /\ resp.status = HTTP_400_BAD_REQUEST
    /\ resp.pk \in DOMAIN store
    /\ resp.data.description # {} /\ resp.data.completed # {}

(* C9 *)

\* a listing holds exactly the stored rows, each once, as they are stored
ListsTheStore(tasks) ==
    /\ Len(tasks) = Cardinality(DOMAIN store)
    /\ {tasks[i].id : i \in 1..Len(tasks)} = DOMAIN store
    /\ \A i \in 1..Len(tasks) : tasks[i] = to_representation(tasks[i].id, store[tasks[i].id])

\* C9 as stated: the collection GET answers 200 with exactly the stored Tasks
\* by created_at descending, and a Task created after another always comes
\* before it, whatever updates happened.
C9_LaterCreatedAlwaysFirst ==
    resp.op = "list" =>
        /\ resp.status = HTTP_200_OK
        /\ ListsTheStore(resp.tasks)
        /\ \A i, j \in 1..Len(resp.tasks) :
              i < j => /\ resp.tasks[i].created_at >= resp.tasks[j].created_at
                       /\ resp.tasks[i].id > resp.tasks[j].id

\* C9 amended: the collection GET answers 200 with exactly the stored Tasks
\* by created_at descending; a Task created after another comes before it when
\* its created_at is strictly later, whatever updates happened, and two Tasks
\* with equal created_at come in either order.
C9_ListByCreatedAtDescending ==
    resp.op = "list" =>
        /\ resp.status = HTTP_200_OK
        /\ ListsTheStore(resp.tasks)
        /\ \A i, j \in 1..Len(resp.tasks) :
              i < j => /\ resp.tasks[i].created_at >= resp.tasks[j].created_at
                       /\ resp.tasks[i].id < resp.tasks[j].id =>
                             resp.tasks[i].created_at = resp.tasks[j].created_at

\* the listing [B, A] of A, created first and updated after B was created, and B
C9_Witness ==
    /\ resp.op = "list" /\ Len(resp.tasks) = 2
    /\ resp.tasks[1].id > resp.tasks[2].id
    /\ resp.tasks[1].created_at > resp.tasks[2].created_at
    /\ resp.tasks[2].updated_at > resp.tasks[2].created_at

(* C10 *)

C11_CreatedNotAfterUpdated ==
    \A k \in DOMAIN store : store[k].created_at <= store[k].updated_at

\* two Tasks are stored: one saved through the admin after the clock advanced
\* past its creation, one as it was created
C11_Witness ==
    /\ resp.op = "save_model" /\ resp.errors = {}
    /\ \E j, k \in DOMAIN store :
          /\ j = resp.pk /\ store[j].created_at < store[j].updated_at
          /\ k # j /\ store[k].created_at = store[k].updated_at

(* C12 *)

\* this step stores a Task that was not stored before, answering r
Creates(r) == \/ r.op = "create" /\ r.status = HTTP_201_CREATED
              \/ r.op = "save_model" /\ r.errors = {} /\ r.pk \notin DOMAIN store

\* C12: a Task created without a description, by a POST on the collection or
\* by an admin save of a new object, is stored with description null, which is
\* not the empty string; one created without completed is stored with
\* completed False.
C12_OmittedFieldsTakeDefaults ==
    [][ (resp = NoResponse /\ Creates(resp')) =>
            \E k \in DOMAIN store' \ DOMAIN store :
                /\ resp'.data.description = {} =>
                      /\ store'[k].description = None
                      /\ store'[k].description # EmptyDescription
                /\ resp'.data.completed = {} => store'[k].completed = FALSE ]_vars

\* an admin save stored a new Task built without description and completed,
\* beside a Task a POST created without them
C12_Witness ==
    /\ resp.op = "save_model" /\ resp.errors = {} /\ resp.pk = nextId - 1
    /\ resp.data.description = {} /\ resp.data.completed = {}
    /\ store[resp.pk].description = None /\ store[resp.pk].completed = FALSE
    /\ \E k \in DOMAIN store : k # resp.pk /\ store[k].title = ShortTitle
                                            /\ store[k].description = None

(* C13 *)

\* C13: no two stored Tasks share an id (an id is handed out once, above every
\* id in use, and a listing shows no id twice), and a Task keeps its id for
\* life: no step but a DELETE takes an id out of the table, and no step but a
\* creation brings one in.  A PUT on /tasks/{id}/ leaves the table with the
\* same ids and every other row as it was, the Task it returns has id {id} and
\* the created_at that Task had, whatever id the body carries.
C13_IdsUniqueAndFixed ==
    [][ /\ nextId' >= nextId
        /\ \A k \in DOMAIN store' : k < nextId'
        /\ \A k \in DOMAIN store' \ DOMAIN store : k = nextId
        /\ ~Handles("destroy") => DOMAIN store \subseteq DOMAIN store'
        /\ Handles("list") =>
              \A i, j \in 1..Len(resp'.tasks) :
                  i # j => resp'.tasks[i].id # resp'.tasks[j].id
        /\ Handles("update") =>
              /\ DOMAIN store' = DOMAIN store /\ nextId' = nextId
              /\ \A k \in DOMAIN store : k # resp'.pk => store'[k] = store[k]
              /\ resp'.status = HTTP_200_OK =>
                    /\ resp'.tasks[1].id = resp'.pk
                    /\ resp'.tasks[1] = to_representation(resp'.pk, store'[resp'.pk])
                    /\ resp'.tasks[1].created_at = store[resp'.pk].created_at ]_vars

\* a PUT whose body carries the id of another stored Task answered 200
C13_Witness ==
    /\ resp.op = "update" /\ resp.status = HTTP_200_OK
    /\ resp.data.id # {} /\ TheOne(resp.data.id) # resp.pk
    /\ TheOne(resp.data.id) \in DOMAIN store
    /\ resp.tasks[1].id = resp.pk

(* C14 *)

\* C14: under concurrent requests a PUT and a DELETE on the same stored Task
\* leave the table as one of their serial orders does: an id that was handed
\* out and is no longer stored is never stored again, and a PUT answers 200
\* only for a Task that is stored when it saves.
C14_AtomicUnderConcurrency ==
    [][ /\ \A k \in 1..(nextId - 1) : k \notin DOMAIN store => k \notin DOMAIN store'
        /\ \A c \in Clients :
              ( /\ inflight[c].op = "update" /\ inflight[c].status = 0
                /\ inflight'[c].status = HTTP_200_OK ) =>
                  inflight[c].pk \in DOMAIN store ]_vars

(* C15 *)

\* a Task the validation accepts: a non-empty title of at most 200 characters
ValidTask(t) == StrLen(t.title) >= 1 /\ StrLen(t.title) <= TitleMaxLength

====
